---- MODULE Spec2Model ----
(***************************************************************************)
(* A model of stock_downloader.py: load_data, the retrieval routine with   *)
(* retry, backoff and a two-method fallback, run against a provider        *)
(* (yfinance) that may answer with rows, with nothing, or by raising.      *)
(*                                                                         *)
(* Dates are records [y, m, d]; a formatted date is the 10-character       *)
(* string strftime('%Y-%m-%d') builds, kept as a tuple of one-character    *)
(* strings.  A close is an integer number of thousandths (100005 is        *)
(* 100.005); a rounded close is an integer number of hundredths.  An       *)
(* error text is a tuple of text fragments, and Python's substring test    *)
(* `marker in text` is the test that a fragment equals the marker.          *)
(***************************************************************************)
EXTENDS Integers, Sequences, FiniteSets, TLC

\* ------------------------------------------------------------------ bounds

\* The largest max_retries a call is given (the page passes the default, 3).
MaxRetries == 3

\* ------------------------------------------------------- program constants

\* time.sleep(2) after an attempt that came back empty.
EmptyDelay == 2

\* wait_time = (attempt + 1) * 3 after a rate-limited attempt.
BackoffUnit == 3

\* def load_data(ticker, start_date, end_date, max_retries=3)
DefaultMaxRetries == 3

\* ------------------------------------------------------------------- dates

Date(y, m, d) == [y |-> y, m |-> m, d |-> d]

IsLeap(y) == (y % 4 = 0 /\ y % 100 # 0) \/ y % 400 = 0

DaysInMonth(y, m) ==
    IF m = 2 THEN (IF IsLeap(y) THEN 29 ELSE 28)
    ELSE IF m \in {4, 6, 9, 11} THEN 30 ELSE 31

\* date + timedelta(days=1)
PlusOneDay(dt) ==
    IF dt.d < DaysInMonth(dt.y, dt.m) THEN Date(dt.y, dt.m, dt.d + 1)
    ELSE IF dt.m < 12 THEN Date(dt.y, dt.m + 1, 1)
    ELSE Date(dt.y + 1, 1, 1)

\* date comparison, as datetime.date orders dates
DateLT(a, b) ==
    \/ a.y < b.y
    \/ a.y = b.y /\ a.m < b.m
    \/ a.y = b.y /\ a.m = b.m /\ a.d < b.d

DateLE(a, b) == a = b \/ DateLT(a, b)

Digits == <<"0", "1", "2", "3", "4", "5", "6", "7", "8", "9">>

Digit(n) == Digits[n + 1]

DigitValue(c) == CHOOSE n \in 0..9 : Digits[n + 1] = c

\* date.strftime('%Y-%m-%d')
Strftime(dt) ==
    << Digit(dt.y \div 1000), Digit((dt.y \div 100) % 10),
       Digit((dt.y \div 10) % 10), Digit(dt.y % 10), "-",
       Digit(dt.m \div 10), Digit(dt.m % 10), "-",
       Digit(dt.d \div 10), Digit(dt.d % 10) >>

\* The provider's reading of a 'YYYY-MM-DD' argument.
ParseDate(s) ==
    Date(DigitValue(s[1]) * 1000 + DigitValue(s[2]) * 100
           + DigitValue(s[3]) * 10 + DigitValue(s[4]),
         DigitValue(s[6]) * 10 + DigitValue(s[7]),
         DigitValue(s[9]) * 10 + DigitValue(s[10]))

\* ---------------------------------------------------------------- provider

\* The dates a query may name: they span a month's and a year's end.
QueryDates ==
    { Date(2023, 12, 30), Date(2023, 12, 31), Date(2024, 1, 1),
      Date(2024, 1, 2), Date(2024, 1, 3) }

Tickers == {"TEST", "2330.TW"}

\* What the provider holds: per ticker, (date, close) rows in ascending date
\* order, closes in thousandths.  2330.TW has rows on either side of every
\* query window; TEST has the single close 100.005 on 2024-01-02.
ProviderData(t) ==
    IF t = "TEST"
    THEN << [Date |-> Date(2024, 1, 2), Close |-> 100005] >>
    ELSE << [Date |-> Date(2023, 12, 29), Close |-> 593004],
            [Date |-> Date(2024, 1, 2), Close |-> 578006],
            [Date |-> Date(2024, 1, 3), Close |-> 580015],
            [Date |-> Date(2024, 1, 4), Close |-> 585000] >>

\* A DataFrame: its columns, its date index, and its Close column.
Frame(cols, rows) ==
    [columns |-> cols,
     index |-> [i \in 1..Len(rows) |-> rows[i].Date],
     Close |-> IF "Close" \in cols
               THEN [i \in 1..Len(rows) |-> rows[i].Close] ELSE << >>]

\* pd.DataFrame(): no columns, no rows.
EmptyFrame == [columns |-> {}, index |-> << >>, Close |-> << >>]

\* DataFrame.empty
IsEmpty(df) == Len(df.index) = 0 \/ df.columns = {}

\* The rows of the half-open window [start, end) the provider selects.
WindowRows(t, start, end) ==
    LET InWindow(r) == DateLE(ParseDate(start), r.Date)
                       /\ DateLT(r.Date, ParseDate(end))
    IN SelectSeq(ProviderData(t), InWindow)

\* Error texts the provider call may raise with (str(e)).
RateLimitedText == <<"Too Many Requests", ". Rate limited. Try after a while.">>
RateLimitErrorText == <<"yfinance.exceptions.YF", "RateLimitError", ": blocked">>
LowerCaseText == <<"429: ", "too many requests", ", ", "rate limit", " reached">>
NetworkText == <<"HTTPSConnectionPool: ", "Connection refused">>

ErrorTexts == {RateLimitedText, RateLimitErrorText, LowerCaseText, NetworkText}

\* str(KeyError) of data[['Close']] on a frame without a Close column.
KeyErrorText == <<"\"None of [Index(['Close'])] are in the [columns]\"">>

NoError == << >>

\* What a provider call may come back with: the window's rows; no rows
\* although the window has some (a failed request the library swallowed);
\* rows without a Close column; or an exception.
ProviderOutcomes(t, start, end) ==
    LET rows == WindowRows(t, start, end)
    IN  { [raised |-> NoError, frame |-> Frame({"Open", "Close"}, rows)],
          [raised |-> NoError, frame |-> Frame({"Open", "Close"}, << >>)] }
        \cup (IF Len(rows) > 0
              THEN { [raised |-> NoError, frame |-> Frame({"Open"}, rows)] }
              ELSE {})
        \cup { [raised |-> e, frame |-> EmptyFrame] : e \in ErrorTexts }

\* ------------------------------------------------------ pure helper steps

\* marker in error_msg
Contains(text, marker) == \E i \in 1..Len(text) : text[i] = marker

\* A changed classifier: `"RateLimitError" or "Too Many Requests" in
\* error_msg`, which Python reads as always true.
IsRateLimitAlways(error_msg) == TRUE

\* A changed classifier: the markers in lower case, "rate limit" and
\* "too many requests".
IsRateLimitLowerCase(error_msg) ==
    Contains(error_msg, "rate limit") \/ Contains(error_msg, "too many requests")

\* "RateLimitError" in error_msg or "Too Many Requests" in error_msg
IsRateLimit(error_msg) ==
    Contains(error_msg, "RateLimitError") \/ Contains(error_msg, "Too Many Requests")

\* A changed backoff: a flat 3 time units, whatever the attempt.
WaitTimeFlat(i) == BackoffUnit

\* A changed backoff: attempt * 3, the index taken as one-based.
WaitTimeFromZero(i) == i * BackoffUnit

\* wait_time = (attempt + 1) * 3
WaitTime(i) == (i + 1) * BackoffUnit

\* A changed guard: the retry taken whatever the attempt.
EmptyRetryAlways(i, n) == TRUE

\* A changed guard: attempt < max_retries, one retry too many.
EmptyRetryAllowedOffByOne(i, n) == i < n

\* if attempt < max_retries - 1, after both methods came back empty
EmptyRetryAllowed(i, n) == i < n - 1

\* A changed guard: a rate-limited attempt is never retried.
RateLimitRetryNever(i, n) == FALSE

\* A changed guard: attempt < max_retries, one retry too many.
RateLimitRetryAllowedOffByOne(i, n) == i < n

\* if attempt < max_retries - 1, in the rate-limit branch of the handler
RateLimitRetryAllowed(i, n) == i < n - 1

\* A changed handler: one that names the rate-limit exception only.
CatchesRateLimitOnly(e) == IsRateLimit(e)

\* except Exception: every exception the try block raises is handled
Catches(e) == TRUE

\* A changed rounding: the third fractional digit cut off.
Round2Truncating(c) == c \div 10

\* Series.round(2) of a close given in thousandths, as numpy rounds: scale by
\* 10^2, round to the nearest integer with ties to the even one, and divide.
\* The result is a number of hundredths.  The closes of ProviderData are ones
\* whose product with 100 is exact in binary floating point (100.005 * 100 is
\* 10000.5, 580.015 * 100 is 58001.5), so the thousandths decide the tie.
Round2(c) ==
    LET q == c \div 10
        r == c % 10
    IN  IF r < 5 THEN q
        ELSE IF r > 5 THEN q + 1
        ELSE IF q % 2 = 0 THEN q ELSE q + 1

\* A changed window: end_date passed on as it is.
EndDateUnchanged(end) == end

\* A changed window: end_date + timedelta(days=2).
EndDatePlusTwo(end) == PlusOneDay(PlusOneDay(end))

\* end_date + timedelta(days=1)
EndDateInclusive(end) == PlusOneDay(end)

\* A changed normalization: the last row is lost.
NormalizeFrameShort(df) ==
    [i \in 1..(Len(df.index) - 1) |->
        [date |-> Strftime(df.index[i]), close |-> Round2(df.Close[i])]]

\* df = data[['Close']].copy(); reset_index; rename; strftime; round(2)
NormalizeFrame(df) ==
    [i \in 1..Len(df.index) |->
        [date |-> Strftime(df.index[i]), close |-> Round2(df.Close[i])]]

\* -------------------------------------------------------------------- state

VARIABLES
    ticker, start_date, end_date, max_retries,  \* the arguments of load_data
    pc,          \* where the call stands
    attempt,     \* the loop variable; -1 before the first iteration
    data,        \* the frame the provider calls of this attempt left
    error_msg,   \* str(e) of the exception being handled
    returned,    \* the returned DataFrame, a sequence of (date, close) rows
    calls,       \* the provider calls made, in order
    responses,   \* what the provider answered to each call, in order
    sleeps,      \* the time.sleep calls made, in order
    advisories,  \* the st.warning / st.error notices shown, in order
    trace,       \* the order of attempts, waits and outcomes
    page_pc,     \* where the page stands: "call" when load_data runs alone
    session,     \* st.session_state: whether df_data is there, and its value
    prev_session,  \* st.session_state as the current rerun found it
    fetch_button   \* what st.button returned in the current rerun

vars == << ticker, start_date, end_date, max_retries, pc, attempt, data,
           error_msg, returned, calls, responses, sleeps, advisories,
           trace, page_pc, session, prev_session, fetch_button >>

\* The page's state, which a call of load_data leaves alone.
page == << page_pc, session, prev_session, fetch_button >>

\* 'df_data' not in st.session_state
NoSession == [set |-> FALSE, df_data |-> << >>]

args == << ticker, start_date, end_date, max_retries >>

Init ==
    /\ ticker \in Tickers
    /\ start_date \in QueryDates
    /\ end_date \in QueryDates
    /\ max_retries \in -1..MaxRetries
    /\ pc = "for"
    /\ attempt = -1
    /\ data = EmptyFrame
    /\ error_msg = NoError
    /\ returned = << >>
    /\ calls = << >>
    /\ responses = << >>
    /\ sleeps = << >>
    /\ advisories = << >>
    /\ trace = << >>
    /\ page_pc = "call"
    /\ session = NoSession
    /\ prev_session = NoSession
    /\ fetch_button = FALSE

Call(method, i) ==
    [method |-> method, ticker |-> ticker, attempt |-> i,
     start |-> Strftime(start_date),
     end |-> Strftime(EndDateInclusive(end_date))]

Advisory(level, kind, i, wait, text) ==
    [level |-> level, kind |-> kind, attempt_no |-> i + 1, of |-> max_retries,
     wait_time |-> wait, text |-> text]

Sleep(secs, i) == [secs |-> secs, after |-> i]

\* for attempt in range(max_retries): the next iteration starts
ForNext ==
    /\ pc = "for"
    /\ attempt + 1 < max_retries
    /\ attempt' = attempt + 1
    /\ data' = EmptyFrame
    /\ error_msg' = NoError
    /\ trace' = Append(trace, "attempt")
    /\ pc' = "history"
    /\ UNCHANGED << args, returned, calls, responses, sleeps, advisories >>
    /\ UNCHANGED page

\* the loop is exhausted: the trailing return pd.DataFrame()
ForExit ==
    /\ pc = "for"
    /\ ~(attempt + 1 < max_retries)
    /\ returned' = << >>
    /\ trace' = Append(trace, "return_after_loop")
    /\ pc' = "done"
    /\ UNCHANGED << args, attempt, data, error_msg, calls, responses, sleeps, advisories >>
    /\ UNCHANGED page

\* data = yf.Ticker(ticker).history(start=..., end=...); if data.empty: ...
History ==
    /\ pc = "history"
    /\ LET c == Call("history", attempt)
       IN /\ calls' = Append(calls, c)
          /\ \E o \in ProviderOutcomes(c.ticker, c.start, c.end) :
              /\ responses' = Append(responses, o)
              /\ IF o.raised # NoError
                 THEN /\ error_msg' = o.raised
                      /\ data' = data
                      /\ pc' = "except"
                 ELSE /\ error_msg' = error_msg
                      /\ data' = o.frame
                      /\ pc' = IF IsEmpty(o.frame) THEN "download" ELSE "check"
    /\ UNCHANGED << args, attempt, returned, sleeps, advisories, trace >>
    /\ UNCHANGED page

\* data = yf.download(ticker, start=..., end=..., progress=False)
Download ==
    /\ pc = "download"
    /\ LET c == Call("download", attempt)
       IN /\ calls' = Append(calls, c)
          /\ \E o \in ProviderOutcomes(c.ticker, c.start, c.end) :
              /\ responses' = Append(responses, o)
              /\ IF o.raised # NoError
                 THEN /\ error_msg' = o.raised
                      /\ data' = data
                      /\ pc' = "except"
                 ELSE /\ error_msg' = error_msg
                      /\ data' = o.frame
                      /\ pc' = "check"
    /\ UNCHANGED << args, attempt, returned, sleeps, advisories, trace >>
    /\ UNCHANGED page

\* if data.empty: sleep 2 and continue while attempts remain, else return empty
CheckEmpty ==
    /\ pc = "check"
    /\ IF IsEmpty(data)
       THEN IF EmptyRetryAllowed(attempt, max_retries)
            THEN /\ sleeps' = Append(sleeps, Sleep(EmptyDelay, attempt))
                 /\ trace' = Append(trace, "sleep")
                 /\ returned' = returned
                 /\ pc' = "for"
            ELSE /\ returned' = << >>
                 /\ trace' = Append(trace, "return_empty")
                 /\ sleeps' = sleeps
                 /\ pc' = "done"
       ELSE /\ pc' = "normalize"
            /\ UNCHANGED << returned, sleeps, trace >>
    /\ UNCHANGED << args, attempt, data, error_msg, calls, responses, advisories >>
    /\ UNCHANGED page

\* df = data[['Close']].copy() ... return df
Normalize ==
    /\ pc = "normalize"
    /\ IF "Close" \in data.columns
       THEN /\ returned' = NormalizeFrame(data)
            /\ trace' = Append(trace, "return_df")
            /\ error_msg' = error_msg
            /\ pc' = "done"
       ELSE /\ error_msg' = KeyErrorText
            /\ pc' = "except"
            /\ UNCHANGED << returned, trace >>
    /\ UNCHANGED << args, attempt, data, calls, responses, sleeps, advisories >>
    /\ UNCHANGED page

\* except Exception as e: classify str(e); warn, wait and retry, or give up
Except ==
    /\ pc = "except"
    /\ IF ~Catches(error_msg)
       THEN /\ pc' = "raised"
            /\ UNCHANGED << returned, sleeps, advisories, trace >>
       ELSE IF IsRateLimit(error_msg)
       THEN IF RateLimitRetryAllowed(attempt, max_retries)
            THEN /\ advisories' = Append(advisories,
                        Advisory("warning", "rate_limit_retry", attempt,
                                 WaitTime(attempt), NoError))
                 /\ sleeps' = Append(sleeps, Sleep(WaitTime(attempt), attempt))
                 /\ trace' = Append(trace, "sleep")
                 /\ returned' = returned
                 /\ pc' = "for"
            ELSE /\ advisories' = Append(advisories,
                        Advisory("error", "rate_limit_exhausted", attempt,
                                 0, NoError))
                 /\ returned' = << >>
                 /\ trace' = Append(trace, "return_rate_limited")
                 /\ sleeps' = sleeps
                 /\ pc' = "done"
       ELSE /\ advisories' = Append(advisories,
                   Advisory("error", "fetch_failed", attempt, 0, error_msg))
            /\ returned' = << >>
            /\ trace' = Append(trace, "return_error")
            /\ sleeps' = sleeps
            /\ pc' = "done"
    /\ UNCHANGED << args, attempt, data, error_msg, calls, responses >>
    /\ UNCHANGED page

Next ==
    \/ ForNext
    \/ ForExit
    \/ History
    \/ Download
    \/ CheckEmpty
    \/ Normalize
    \/ Except

Spec == Init /\ [][Next]_vars

\* The call runs on: every statement it reaches is executed (a provider call
\* answers or raises, a sleep ends).
FairSpec == Spec /\ WF_vars(Next)

\* --------------------------------------------------------------- the page

\* The dates the date inputs offer; the last is today (max_value=today).
PageDates == { Date(2024, 1, 1), Date(2024, 1, 2), Date(2024, 1, 3) }

\* index=default_index: the first option of the selectbox.
DefaultTicker == "2330.TW"

\* default_start_date, the earliest date on offer here.
DefaultStart == Date(2024, 1, 1)

\* today
DefaultEnd == Date(2024, 1, 3)

\* A changed check: no date pair is refused.
DatesInvalidNever(start, end) == FALSE

\* if start_date > end_date: st.error(...); st.stop()
DatesInvalid(start, end) == DateLT(end, start)

\* A changed condition: every rerun fetches.
NeedsFetchAlways(button, state) == TRUE

\* if fetch_button or 'df_data' not in st.session_state
NeedsFetch(button, state) == button \/ ~state.set

\* A changed assignment: the new rows are added to the ones held.
StoreAppending(state, df) == [set |-> TRUE, df_data |-> state.df_data \o df]

\* st.session_state.df_data = load_data(...)
Store(state, df) == [set |-> TRUE, df_data |-> df]

\* st.subheader(f"... ({ticker_yf}) ..."): the ticker the header names.
Header == ticker

\* st.info(f"... {start_date} ... {end_date} (... {len(df_data)} ...)"), shown
\* with the table when df_data is not empty.
Banner ==
    [start |-> Strftime(start_date), end |-> Strftime(end_date),
     count |-> Len(session.df_data)]

\* st.dataframe(df_data, ...)
Table == session.df_data

\* if not df_data.empty: the banner and the table are on the page
TableShown == page_pc = "rendered" /\ Len(session.df_data) > 0

PageInit ==
    /\ ticker = DefaultTicker
    /\ start_date = DefaultStart
    /\ end_date = DefaultEnd
    /\ max_retries = DefaultMaxRetries
    /\ pc = "idle"
    /\ attempt = -1
    /\ data = EmptyFrame
    /\ error_msg = NoError
    /\ returned = << >>
    /\ calls = << >>
    /\ responses = << >>
    /\ sleeps = << >>
    /\ advisories = << >>
    /\ trace = << >>
    /\ page_pc = "new"
    /\ session = NoSession
    /\ prev_session = NoSession
    /\ fetch_button = FALSE

\* One run of the script, from its top to the call of load_data or, when no
\* fetch is due, to its end: the widgets give (t, s, e) and the button b.
Rerun(t, s, e, b) ==
    /\ ticker' = t
    /\ start_date' = s
    /\ end_date' = e
    /\ prev_session' = session
    /\ session' = session
    /\ attempt' = -1
    /\ data' = EmptyFrame
    /\ error_msg' = NoError
    /\ returned' = << >>
    /\ calls' = << >>
    /\ responses' = << >>
    /\ sleeps' = << >>
    /\ advisories' = << >>
    /\ trace' = << >>
    /\ UNCHANGED max_retries
    /\ IF DatesInvalid(s, e)
       THEN /\ page_pc' = "stopped"
            /\ fetch_button' = FALSE
            /\ pc' = "idle"
       ELSE /\ fetch_button' = b
            /\ IF NeedsFetch(b, session)
               THEN page_pc' = "fetching" /\ pc' = "for"
               ELSE page_pc' = "rendered" /\ pc' = "idle"

\* The first run of a new session, with every widget at its default.
FirstRun ==
    /\ page_pc = "new"
    /\ Rerun(ticker, start_date, end_date, FALSE)

\* The user picks another ticker; the script reruns.
ChangeTicker ==
    /\ page_pc \in {"rendered", "stopped"}
    /\ \E t \in Tickers \ {ticker} : Rerun(t, start_date, end_date, FALSE)

\* The user picks another start date; the script reruns.
ChangeStart ==
    /\ page_pc \in {"rendered", "stopped"}
    /\ \E s \in PageDates \ {start_date} : Rerun(ticker, s, end_date, FALSE)

\* The user picks another end date; the script reruns.
ChangeEnd ==
    /\ page_pc \in {"rendered", "stopped"}
    /\ \E e \in PageDates \ {end_date} : Rerun(ticker, start_date, e, FALSE)

\* The user presses the fetch button, which only a run that was not stopped
\* has put on the page; the script reruns with the widgets as they are.
PressFetch ==
    /\ page_pc = "rendered"
    /\ Rerun(ticker, start_date, end_date, TRUE)

\* load_data(ticker_yf, start_date, end_date), one step at a time
LoadDataStep ==
    /\ page_pc = "fetching"
    /\ CASE pc = "for" -> IF attempt + 1 < max_retries THEN ForNext ELSE ForExit
         [] pc = "history" -> History
         [] pc = "download" -> Download
         [] pc = "check" -> CheckEmpty
         [] pc = "normalize" -> Normalize
         [] pc = "except" -> Except
         [] OTHER -> FALSE

\* st.session_state.df_data = <what load_data returned>, and the rest of the
\* script: the banner and the table, or the no-data warning.
FetchReturns ==
    /\ page_pc = "fetching"
    /\ pc = "done"
    /\ session' = Store(session, returned)
    /\ page_pc' = "rendered"
    /\ UNCHANGED << args, pc, attempt, data, error_msg, returned, calls,
                    responses, sleeps, advisories, trace, prev_session,
                    fetch_button >>

PageNext ==
    \/ FirstRun
    \/ ChangeTicker
    \/ ChangeStart
    \/ ChangeEnd
    \/ PressFetch
    \/ LoadDataStep
    \/ FetchReturns

PageSpec == PageInit /\ [][PageNext]_vars

\* ---------------------------------------------------------------- typing

TypeOK ==
    /\ pc \in {"idle", "for", "history", "download", "check", "normalize",
              "except", "done", "raised"}
    /\ page_pc \in {"call", "new", "fetching", "rendered", "stopped"}
    /\ fetch_button \in BOOLEAN
    /\ session.set \in BOOLEAN
    /\ attempt \in -1..MaxRetries
    /\ max_retries \in -1..MaxRetries

\* ------------------------------------------------- reading the call's logs

Count(seq, x) == Cardinality({k \in 1..Len(seq) : seq[k] = x})

\* The number of attempts the call has started.
NAttempts == Count(trace, "attempt")

\* The texts with which the provider signals rate limiting.
RateLimitSignals == {RateLimitedText, RateLimitErrorText}

CallsOf(i) == {k \in 1..Len(calls) : calls[k].attempt = i}

\* The calls of one attempt follow one another in the log.
LastCallOf(i) ==
    CHOOSE k \in 1..Len(calls) :
        /\ calls[k].attempt = i
        /\ k = Len(calls) \/ calls[k + 1].attempt # i

NoRows(r) == r.raised = NoError /\ Len(r.frame.index) = 0

\* How the provider answered attempt i, read from its answers alone.
Outcome(i) ==
    IF CallsOf(i) = {} THEN "pending"
    ELSE LET k == LastCallOf(i)
             r == responses[k]
         IN  IF r.raised \in RateLimitSignals THEN "rate_limited"
             ELSE IF r.raised # NoError THEN "error"
             ELSE IF NoRows(r)
                  THEN (IF calls[k].method = "download" THEN "empty" ELSE "pending")
             ELSE IF "Close" \in r.frame.columns THEN "rows"
             ELSE "malformed"

AdvisoriesOf(i) == {k \in 1..Len(advisories) : advisories[k].attempt_no = i + 1}

SleepsAfter(i) == {k \in 1..Len(sleeps) : sleeps[k].after = i}

\* ------------------------------------------------------------------ claims

\* C1: when both retrieval methods return zero rows, without raising, on every
\* attempt, a call with max_retries >= 1 returns an empty series after exactly
\* max_retries attempts (each calling both methods) and exactly
\* max_retries - 1 waits of 2 time units each, one after each attempt but the
\* last, and shows no advisory.
C1_NoDataOnEveryAttempt ==
    (/\ pc = "done"
     /\ max_retries >= 1
     /\ \A k \in 1..Len(responses) : NoRows(responses[k]))
    => /\ returned = << >>
       /\ NAttempts = max_retries
       /\ Len(calls) = 2 * max_retries
       /\ Len(sleeps) = max_retries - 1
       /\ \A k \in 1..Len(sleeps) : sleeps[k].secs = 2 /\ sleeps[k].after = k - 1
       /\ advisories = << >>

C1_Witness ==
    /\ pc = "done"
    /\ max_retries = 3
    /\ Len(responses) = 6
    /\ \A k \in 1..Len(responses) : NoRows(responses[k])
    /\ Len(sleeps) = 2

\* C2: when the provider signals rate limiting on every attempt, a call with
\* max_retries >= 1 makes exactly max_retries attempts, waits (i + 1) * 3 time
\* units between attempt i and attempt i + 1 (3, 6, 9, ...), shows exactly one
\* warning per retry and one error notice on exhaustion, and returns an empty
\* series.
C2_RateLimitedOnEveryAttempt ==
    (/\ pc = "done"
     /\ max_retries >= 1
     /\ \A i \in 0..attempt : Outcome(i) = "rate_limited")
    => /\ returned = << >>
       /\ NAttempts = max_retries
       /\ Len(sleeps) = max_retries - 1
       /\ \A k \in 1..Len(sleeps) : sleeps[k].secs = 3 * k /\ sleeps[k].after = k - 1
       /\ Len(advisories) = max_retries
       /\ \A k \in 1..(max_retries - 1) :
             /\ advisories[k].level = "warning"
             /\ advisories[k].kind = "rate_limit_retry"
             /\ advisories[k].attempt_no = k
             /\ advisories[k].wait_time = 3 * k
       /\ advisories[max_retries].level = "error"
       /\ advisories[max_retries].kind = "rate_limit_exhausted"

C2_Witness ==
    /\ pc = "done"
    /\ max_retries = 3
    /\ \A i \in 0..attempt : Outcome(i) = "rate_limited"
    /\ Len(sleeps) = 2
    /\ sleeps[2].secs = 6

\* C3: a non-rate-limit error raised by the provider at any attempt ends the
\* call at once: no later attempt, no wait after it, an empty series, and
\* exactly one advisory for that attempt, an error notice carrying the
\* original error text.  Raised on the first attempt, that is one attempt,
\* zero waits and one advisory in all.
C3_OtherErrorEndsTheCall ==
    \A i \in 0..attempt :
        Outcome(i) = "error"
        => /\ attempt = i
           /\ pc \in {"except", "done"}
           /\ SleepsAfter(i) = {}
           /\ pc = "done"
              => /\ returned = << >>
                 /\ Cardinality(AdvisoriesOf(i)) = 1
                 /\ advisories[Len(advisories)].level = "error"
                 /\ advisories[Len(advisories)].kind = "fetch_failed"
                 /\ advisories[Len(advisories)].text
                       = responses[LastCallOf(i)].raised
                 /\ i = 0 => /\ NAttempts = 1
                             /\ sleeps = << >>
                             /\ Len(advisories) = 1

C3_Witness ==
    /\ pc = "done"
    /\ max_retries = 3
    /\ attempt = 0
    /\ Outcome(0) = "error"
    /\ advisories[1].text = NetworkText

C3_WitnessLater ==
    /\ pc = "done"
    /\ max_retries = 3
    /\ attempt = 1
    /\ Outcome(1) = "error"

\* C4: no exception leaves load_data.  Whatever the provider answers (zero
\* rows, rows, a rate-limit error, another error, from the primary or the
\* fallback method) and whatever normalization raises, every failed attempt
\* is either retried after a wait, or ends the call with an empty series:
\* silently when it found no rows, with an advisory when it raised.
C4_NeverRaises ==
    /\ pc # "raised"
    /\ \A i \in 0..attempt :
          (Outcome(i) \in {"empty", "rate_limited", "error", "malformed"}
             /\ (i < attempt \/ pc \in {"for", "done"}))
          => \/ /\ Cardinality(SleepsAfter(i)) = 1
                /\ Outcome(i) \in {"empty", "rate_limited"}
             \/ /\ i = attempt
                /\ pc = "done"
                /\ SleepsAfter(i) = {}
                /\ returned = << >>
                /\ (Outcome(i) = "empty") = (AdvisoriesOf(i) = {})

C4_Witness ==
    /\ pc = "done"
    /\ attempt = 2
    /\ Outcome(0) = "rate_limited"
    /\ Outcome(1) = "empty"
    /\ Outcome(2) = "malformed"
    /\ returned = << >>

\* ------------------------------------------------ reading dates and rows

DigitChars == {"0", "1", "2", "3", "4", "5", "6", "7", "8", "9"}

\* s has the shape YYYY-MM-DD and names a month and a day.
IsYMD(s) ==
    /\ Len(s) = 10
    /\ s[5] = "-" /\ s[8] = "-"
    /\ \A j \in {1, 2, 3, 4, 6, 7, 9, 10} : s[j] \in DigitChars
    /\ DigitValue(s[6]) * 10 + DigitValue(s[7]) \in 1..12
    /\ DigitValue(s[9]) * 10 + DigitValue(s[10]) \in 1..31

\* The day after each date a query may name.
DayAfter(dt) ==
    CASE dt = Date(2023, 12, 30) -> Date(2023, 12, 31)
      [] dt = Date(2023, 12, 31) -> Date(2024, 1, 1)
      [] dt = Date(2024, 1, 1) -> Date(2024, 1, 2)
      [] dt = Date(2024, 1, 2) -> Date(2024, 1, 3)
      [] dt = Date(2024, 1, 3) -> Date(2024, 1, 4)

\* The dates in [start_date, end_date] the provider has a row for.
DatesInRange ==
    { ProviderData(ticker)[k].Date : k \in
        { j \in 1..Len(ProviderData(ticker)) :
            /\ DateLE(start_date, ProviderData(ticker)[j].Date)
            /\ DateLE(ProviderData(ticker)[j].Date, end_date) } }

\* The returned dates are YYYY-MM-DD, within the query's range and strictly
\* ascending.
ReturnedDatesOK ==
    \A k \in 1..Len(returned) :
        /\ IsYMD(returned[k].date)
        /\ DateLE(start_date, ParseDate(returned[k].date))
        /\ DateLE(ParseDate(returned[k].date), end_date)
        /\ k > 1 => DateLT(ParseDate(returned[k - 1].date),
                           ParseDate(returned[k].date))

\* C5 as stated: whenever start_date <= end_date and the provider has data for
\* a date in the range, the call returns a non-empty series of in-range,
\* strictly ascending YYYY-MM-DD dates.
C5_DataInRangeIsReturned ==
    (/\ pc = "done"
     /\ max_retries >= 1
     /\ DateLE(start_date, end_date)
     /\ DatesInRange # {})
    => /\ returned # << >>
       /\ ReturnedDatesOK

\* C5, amended: whenever start_date <= end_date and an attempt of the call
\* gets rows from the provider (neither call raising, the Close column
\* present), the call returns a non-empty series holding exactly the dates of
\* the range the provider has data for, all within [start_date, end_date],
\* strictly ascending and formatted YYYY-MM-DD; and no series it returns has a
\* date outside the range.
C5_RowsObtainedAreReturned ==
    (/\ pc = "done"
     /\ max_retries >= 1
     /\ DateLE(start_date, end_date))
    => /\ ReturnedDatesOK
       /\ (\E i \in 0..attempt : Outcome(i) = "rows")
          => /\ returned # << >>
             /\ {ParseDate(returned[k].date) : k \in 1..Len(returned)}
                   = DatesInRange

C5_Witness ==
    /\ pc = "done"
    /\ ticker = "2330.TW"
    /\ start_date = Date(2023, 12, 30)
    /\ end_date = Date(2024, 1, 3)
    /\ Len(returned) = 2
    /\ returned[2].date = <<"2", "0", "2", "4", "-", "0", "1", "-", "0", "3">>

\* C6: a call with max_retries >= 1 terminates, after at least one and at most
\* max_retries attempts; the attempt index starts at 0 and grows by exactly
\* one per retry; every wait lies between two consecutive attempts, so that
\* at the return the waits number one less than the attempts and none follows
\* the last attempt.
C6_Budget ==
    max_retries >= 1
    => /\ NAttempts = attempt + 1
       /\ NAttempts <= max_retries
       /\ \A k \in 1..Len(calls) :
             /\ calls[k].attempt \in 0..(max_retries - 1)
             /\ k > 1 => calls[k].attempt - calls[k - 1].attempt \in {0, 1}
       /\ \A k \in 1..Len(sleeps) : sleeps[k].after = k - 1
       /\ \A k \in 1..Len(trace) :
             /\ trace[k] = "sleep"
                => /\ k > 1 /\ trace[k - 1] = "attempt"
                   /\ IF k < Len(trace)
                      THEN trace[k + 1] = "attempt"
                      ELSE pc = "for" /\ attempt + 1 < max_retries
             /\ trace[k] = "attempt" => (k = 1 \/ trace[k - 1] = "sleep")
       /\ pc = "done"
          => /\ NAttempts >= 1
             /\ Len(sleeps) = NAttempts - 1
             /\ trace[Len(trace)] \notin {"attempt", "sleep"}

C6_TerminatesWithinBudget == [](C6_Budget) /\ <>(pc = "done")

C6_Witness ==
    /\ pc = "done"
    /\ max_retries = 3
    /\ NAttempts = 3
    /\ Len(sleeps) = 2
    /\ trace = <<"attempt", "sleep", "attempt", "sleep", "attempt",
                 "return_rate_limited">>

\* C7: the first attempt in which either method yields rows (with their Close
\* column) is the last: no wait and no advisory follows it, and the call
\* returns one (date, close) row per provider row, in the provider's order.
\* A non-empty series is returned only when the last attempt got rows.
C7_RowsReturnedAtOnce ==
    /\ \A i \in 0..attempt :
          Outcome(i) = "rows"
          => /\ attempt = i
             /\ pc \in {"check", "normalize", "done"}
             /\ SleepsAfter(i) = {}
             /\ AdvisoriesOf(i) = {}
             /\ pc = "done"
                => LET f == responses[LastCallOf(i)].frame
                   IN  /\ Len(returned) = Len(f.index)
                       /\ \A k \in 1..Len(returned) :
                             /\ IsYMD(returned[k].date)
                             /\ ParseDate(returned[k].date) = f.index[k]
                             /\ 10 * returned[k].close - f.Close[k] \in -5..5
    /\ (pc = "done" /\ returned # << >>)
       => (attempt >= 0 /\ Outcome(attempt) = "rows")

C7_Witness ==
    /\ pc = "done"
    /\ attempt = 1
    /\ Outcome(0) = "empty"
    /\ Outcome(1) = "rows"
    /\ calls[Len(calls)].method = "download"
    /\ Len(returned) = 2
    /\ Len(sleeps) = 1

\* C8 as stated: a close at the half is rounded up; the query TEST,
\* 2024-01-02 to 2024-01-02, with the single provider close 100.005, returns
\* the single row (2024-01-02, 100.01).
C8_HalfRoundsUp ==
    (/\ pc = "done"
     /\ ticker = "TEST"
     /\ start_date = Date(2024, 1, 2)
     /\ end_date = Date(2024, 1, 2)
     /\ attempt >= 0
     /\ Outcome(attempt) = "rows")
    => returned = << [date |-> <<"2", "0", "2", "4", "-", "0", "1", "-", "0", "2">>,
                      close |-> 10001] >>

\* C8, amended: every close in a returned series is the provider's close
\* rounded, not truncated, to the nearest hundredth, a close at the half
\* going to the even hundredth; the query TEST, 2024-01-02 to 2024-01-02,
\* with the single provider close 100.005, returns the single row
\* (2024-01-02, 100.0).
C8_HalfRoundsToEven ==
    (/\ pc = "done"
     /\ attempt >= 0
     /\ Outcome(attempt) = "rows")
    => LET f == responses[LastCallOf(attempt)].frame
       IN  /\ Len(returned) = Len(f.Close)
           /\ \A k \in 1..Len(returned) :
                 LET diff == 10 * returned[k].close - f.Close[k]
                 IN  /\ diff \in -5..5
                     /\ diff \in {-5, 5} => returned[k].close % 2 = 0
           /\ (ticker = "TEST" /\ start_date = Date(2024, 1, 2)
                 /\ end_date = Date(2024, 1, 2))
              => returned
                   = << [date |-> <<"2", "0", "2", "4", "-", "0", "1", "-", "0", "2">>,
                         close |-> 10000] >>

C8_Witness ==
    /\ pc = "done"
    /\ ticker = "TEST"
    /\ start_date = Date(2024, 1, 2)
    /\ end_date = Date(2024, 1, 2)
    /\ Len(returned) = 1
    /\ returned[1].close = 10000

C8_WitnessUp ==
    /\ pc = "done"
    /\ ticker = "2330.TW"
    /\ Len(returned) = 2
    /\ returned[1].close = 57801
    /\ returned[2].close = 58002

\* C9: in every attempt the primary method is called first, and the fallback
\* is called if and only if the primary returned zero rows without raising;
\* every call is made for the call's ticker with start = start_date and
\* end = end_date + 1 day, both formatted YYYY-MM-DD.
C9_PrimaryThenFallback ==
    /\ Len(calls) > 0
       => /\ IsYMD(calls[1].start) /\ ParseDate(calls[1].start) = start_date
          /\ IsYMD(calls[1].end) /\ ParseDate(calls[1].end) = DayAfter(end_date)
    /\ \A k \in 1..Len(calls) :
        /\ calls[k].ticker = ticker
        /\ calls[k].start = calls[1].start
        /\ calls[k].end = calls[1].end
        /\ (k = 1 \/ calls[k - 1].attempt # calls[k].attempt)
           => calls[k].method = "history"
        /\ calls[k].method = "download"
           <=> (/\ k > 1
                /\ calls[k - 1].attempt = calls[k].attempt
                /\ calls[k - 1].method = "history"
                /\ NoRows(responses[k - 1]))
        /\ (calls[k].method = "history" /\ NoRows(responses[k]))
           => IF k = Len(calls)
              THEN pc = "download"
              ELSE /\ calls[k + 1].method = "download"
                   /\ calls[k + 1].attempt = calls[k].attempt
        /\ (calls[k].method = "history" /\ ~NoRows(responses[k]) /\ k = Len(calls))
           => pc # "download"

C9_Witness ==
    /\ pc = "done"
    /\ end_date = Date(2023, 12, 31)
    /\ Len(calls) = 3
    /\ calls[1].method = "history"
    /\ calls[2].method = "download"
    /\ calls[3].method = "history"
    /\ responses[3].raised = RateLimitedText
    /\ calls[2].end = <<"2", "0", "2", "4", "-", "0", "1", "-", "0", "1">>

\* C10: in any interleaving of zero-row and rate-limited attempts, the k-th
\* wait follows attempt index k - 1, a non-final attempt; it is 2 time units
\* after a zero-row attempt, with no advisory, and (i + 1) * 3 time units
\* after a rate-limited attempt i, with exactly one warning naming attempt
\* i + 1 of max_retries and that wait; each such non-final attempt is
\* followed by exactly one wait, and the attempts never exceed max_retries.
C10_WaitByAttemptIndex ==
    /\ \A k \in 1..Len(sleeps) :
          LET i == sleeps[k].after
          IN  /\ i = k - 1
              /\ i < max_retries - 1
              /\ Outcome(i) \in {"empty", "rate_limited"}
              /\ Outcome(i) = "empty"
                 => sleeps[k].secs = 2 /\ AdvisoriesOf(i) = {}
              /\ Outcome(i) = "rate_limited"
                 => /\ sleeps[k].secs = (i + 1) * 3
                    /\ Cardinality(AdvisoriesOf(i)) = 1
                    /\ \A a \in AdvisoriesOf(i) :
                          /\ advisories[a].level = "warning"
                          /\ advisories[a].attempt_no = i + 1
                          /\ advisories[a].of = max_retries
                          /\ advisories[a].wait_time = sleeps[k].secs
    /\ \A i \in 0..attempt :
          (/\ Outcome(i) \in {"empty", "rate_limited"}
           /\ i < max_retries - 1
           /\ (i < attempt \/ pc \in {"for", "done"}))
          => Cardinality(SleepsAfter(i)) = 1
    /\ max_retries >= 1 => NAttempts <= max_retries

C10_Witness ==
    /\ pc = "done"
    /\ max_retries = 3
    /\ Outcome(0) = "empty"
    /\ Outcome(1) = "rate_limited"
    /\ Outcome(2) = "empty"
    /\ Len(sleeps) = 2
    /\ sleeps[1].secs = 2
    /\ sleeps[2].secs = 6

\* The attempts that ended with an exception: one raised by a provider call,
\* or the KeyError of normalizing rows without a Close column.
Raised(i) ==
    /\ CallsOf(i) # {}
    /\ \/ responses[LastCallOf(i)].raised # NoError
       \/ Outcome(i) = "malformed"

\* Attempt i is over: a later one has started, or the call is back at the
\* loop head or has returned.
Over(i) == i < attempt \/ pc \in {"for", "done"}

\* C11 as stated: an error raised by the provider is retried while attempts
\* remain whenever its text contains "rate limit" or "too many requests", and
\* every other error is never retried.  The two phrases are looked for in
\* either case.
C11_LowerCaseMarkers ==
    \A i \in 0..attempt :
        (CallsOf(i) # {} /\ responses[LastCallOf(i)].raised # NoError /\ Over(i))
        => LET e == responses[LastCallOf(i)].raised
           IN  IF \/ Contains(e, "rate limit")
                  \/ Contains(e, "too many requests")
                  \/ Contains(e, "Too Many Requests")
               THEN i < max_retries - 1 => Cardinality(SleepsAfter(i)) = 1
               ELSE SleepsAfter(i) = {} /\ attempt = i

\* C11, amended: an error raised by the provider is classified as rate-limited
\* whenever its text contains "RateLimitError" or "Too Many Requests", in that
\* spelling: it is then retried after one wait and one warning while attempts
\* remain, and ends the call with the cool-down notice on the last attempt.
\* Every other error, one that spells "rate limit" or "too many requests" in
\* lower case included, ends the call at once with the error notice carrying
\* its text, and is never retried.
C11_ClassifiedByMarkers ==
    \A i \in 0..attempt :
        (CallsOf(i) # {} /\ responses[LastCallOf(i)].raised # NoError /\ Over(i))
        => LET e == responses[LastCallOf(i)].raised
           IN  IF Contains(e, "RateLimitError") \/ Contains(e, "Too Many Requests")
               THEN IF i < max_retries - 1
                    THEN /\ Cardinality(SleepsAfter(i)) = 1
                         /\ \A a \in AdvisoriesOf(i) :
                               advisories[a].kind = "rate_limit_retry"
                    ELSE /\ SleepsAfter(i) = {}
                         /\ pc = "done"
                         /\ \A a \in AdvisoriesOf(i) :
                               advisories[a].kind = "rate_limit_exhausted"
               ELSE /\ SleepsAfter(i) = {}
                    /\ attempt = i
                    /\ pc = "done"
                    /\ \A a \in AdvisoriesOf(i) :
                          /\ advisories[a].kind = "fetch_failed"
                          /\ advisories[a].text = e

C11_Witness ==
    /\ pc = "done"
    /\ max_retries = 3
    /\ attempt = 1
    /\ responses[1].raised = RateLimitErrorText
    /\ responses[2].raised = LowerCaseText
    /\ Len(sleeps) = 1
    /\ advisories[2].kind = "fetch_failed"

\* C12: the advisories shown number the attempts that ended with a raised
\* error and are over: a warning for each rate-limited attempt that is
\* retried, an error notice for a rate-limited last attempt and for any other
\* error; a call in which no attempt raised shows none.  An attempt that ends
\* without raising (zero rows, or rows) shows no advisory.
C12_AdvisoriesOnlyOnRaise ==
    /\ Len(advisories)
          = Cardinality({i \in 0..attempt : Raised(i) /\ Over(i)})
    /\ \A i \in 0..attempt :
          /\ (Raised(i) /\ Over(i)) => Cardinality(AdvisoriesOf(i)) = 1
          /\ ~Raised(i) => AdvisoriesOf(i) = {}
          /\ \A a \in AdvisoriesOf(i) :
                advisories[a].level
                   = IF Outcome(i) = "rate_limited" /\ i < max_retries - 1
                     THEN "warning" ELSE "error"
    /\ (pc = "done" /\ \A i \in 0..attempt : ~Raised(i)) => advisories = << >>

C12_Witness ==
    /\ pc = "done"
    /\ max_retries = 3
    /\ attempt = 2
    /\ Outcome(0) = "rate_limited"
    /\ Outcome(1) = "empty"
    /\ Outcome(2) = "rate_limited"
    /\ Len(advisories) = 2
    /\ advisories[1].level = "warning"
    /\ advisories[2].level = "error"

C12_WitnessSilent ==
    /\ pc = "done"
    /\ max_retries = 3
    /\ attempt = 2
    /\ Outcome(2) = "rows"
    /\ advisories = << >>

\* C17: a call with max_retries <= 0 makes no attempt, no provider call and
\* no wait, shows no advisory and returns an empty series through the return
\* that follows the loop; no call with max_retries >= 1 reaches that return.
C17_NoAttemptWithoutBudget ==
    /\ max_retries <= 0
       => /\ pc \in {"for", "done"}
          /\ attempt = -1
          /\ NAttempts = 0
          /\ calls = << >>
          /\ sleeps = << >>
          /\ advisories = << >>
          /\ returned = << >>
          /\ pc = "done" => trace = <<"return_after_loop">>
    /\ Count(trace, "return_after_loop") > 0 => max_retries <= 0

C17_Witness ==
    /\ pc = "done"
    /\ max_retries = -1
    /\ trace = <<"return_after_loop">>
    /\ returned = << >>

C17_WitnessZero ==
    /\ pc = "done"
    /\ max_retries = 0
    /\ trace = <<"return_after_loop">>

\* ------------------------------------------------------- claims of the page

\* load_data was called in the current rerun.
Fetched == pc # "idle"

\* The rows a fetch of the query on the page brings when it brings any: one
\* per date of the range the provider has data for under the header's ticker,
\* with that date and that day's close to the nearest hundredth.
TableIsOfQueryShown ==
    /\ Len(Table) = Cardinality(DatesInRange)
    /\ ParseDate(Banner.start) = start_date
    /\ ParseDate(Banner.end) = end_date
    /\ \A k \in 1..Len(Table) :
          /\ ParseDate(Table[k].date) \in DatesInRange
          /\ \E j \in 1..Len(ProviderData(Header)) :
                /\ ProviderData(Header)[j].Date = ParseDate(Table[k].date)
                /\ 10 * Table[k].close - ProviderData(Header)[j].Close \in -5..5

\* C13: in every rerun load_data is called if and only if the fetch button
\* was pressed in it or the session held no df_data when it began; a rerun
\* that found df_data and no press makes no provider call and leaves df_data
\* as it was, whatever ticker and dates it has.
C13_FetchOnlyOnPressOrFirstLoad ==
    page_pc \in {"fetching", "rendered", "stopped"}
    => /\ Fetched <=> (fetch_button \/ ~prev_session.set)
       /\ (prev_session.set /\ ~fetch_button)
          => /\ calls = << >>
             /\ trace = << >>
             /\ session = prev_session

C13_Witness ==
    /\ page_pc = "rendered"
    /\ ~Fetched
    /\ ~fetch_button
    /\ ticker = "TEST"
    /\ start_date = Date(2024, 1, 2)
    /\ end_date = Date(2024, 1, 2)
    /\ Len(session.df_data) = 2
    /\ session = prev_session

C13_WitnessPress ==
    /\ page_pc = "fetching"
    /\ fetch_button
    /\ prev_session.set
    /\ Len(calls) > 0

\* C14: when a rerun fetches, the session's df_data is left alone until
\* load_data returns and is then exactly what it returned, nothing of the
\* series held before being kept: an empty result replaces a non-empty series.
C14_FetchReplacesWholesale ==
    /\ page_pc = "fetching" => session = prev_session
    /\ (page_pc = "rendered" /\ Fetched)
       => /\ pc = "done"
          /\ session.set
          /\ session.df_data = returned

C14_Witness ==
    /\ page_pc = "rendered"
    /\ Fetched
    /\ Len(prev_session.df_data) = 2
    /\ session.set
    /\ session.df_data = << >>
    /\ trace[Len(trace)] = "return_rate_limited"

C14_WitnessOther ==
    /\ page_pc = "rendered"
    /\ Fetched
    /\ Len(prev_session.df_data) = 2
    /\ Len(session.df_data) = 1

\* C15: load_data is never called with start_date > end_date: a rerun whose
\* start date is later than its end date is stopped with the error notice
\* before the fetch step, makes no provider call and leaves df_data as it
\* was; every other rerun goes on.
C15_NoFetchWithStartAfterEnd ==
    /\ Fetched => DateLE(start_date, end_date)
    /\ \A k \in 1..Len(calls) :
          DateLT(ParseDate(calls[k].start), ParseDate(calls[k].end))
    /\ (page_pc # "new" /\ DateLT(end_date, start_date))
       => /\ page_pc = "stopped"
          /\ ~Fetched
          /\ calls = << >>
          /\ session = prev_session
    /\ page_pc = "stopped" => DateLT(end_date, start_date)

C15_Witness ==
    /\ page_pc = "stopped"
    /\ start_date = Date(2024, 1, 3)
    /\ end_date = Date(2024, 1, 1)
    /\ session.set
    /\ Len(session.df_data) = 2

\* C16: whenever the table is on the page, the series in it is the result of
\* fetching the ticker the header names over the dates the banner names.
C16_TableMatchesHeader ==
    TableShown => TableIsOfQueryShown

====
